---- MODULE Spec2Model ----
(***************************************************************************)
(* Model of worker/scripts/get_cvm_info.py: a command-line lookup that     *)
(* reads a JSON payload from standard input, scans its items for the       *)
(* first non-terminated one whose name equals the argument, and prints a   *)
(* three-field summary of it.                                              *)
(*                                                                         *)
(* JSON / Python values are tagged records:                                *)
(*   [t |-> "null"]                     None / null                        *)
(*   [t |-> "str",  s |-> "..."]        a string                           *)
(*   [t |-> "num",  n |-> 0]            a number                           *)
(*   [t |-> "list", e |-> <<...>>]      a list                             *)
(*   [t |-> "dict", f |-> [k |-> v]]    a dict; a key whose value is       *)
(*                                      Absent is not in the dict          *)
(***************************************************************************)
EXTENDS Integers, Sequences, FiniteSets, TLC

VARIABLES argv, stdin, pc, data, items, idx, target, info, raised,
          stdout, stderr, exit_status

vars == <<argv, stdin, pc, data, items, idx, target, info, raised,
          stdout, stderr, exit_status>>

-----------------------------------------------------------------------------
(* Values *)

None == [t |-> "null"]

Absent == [t |-> "absent"]

Unset == [t |-> "unset"]

Str(s) == [t |-> "str", s |-> s]

Num(n) == [t |-> "num", n |-> n]

List(e) == [t |-> "list", e |-> e]

Dict(f) == [t |-> "dict", f |-> f]

EmptyDict == Dict([k \in {} |-> Absent])

\* isinstance(v, dict)
IsDict(v) == v.t = "dict"

\* isinstance(v, list)
IsList(v) == v.t = "list"

\* Only dicts have a .get method: on any other JSON value (None, str,
\* number, list) the attribute lookup raises AttributeError.
HasGet(v) == IsDict(v)

\* d.get(k, default)
GetOr(d, k, default) ==
  IF k \in DOMAIN d.f /\ d.f[k] # Absent THEN d.f[k] ELSE default

\* d.get(k)
Get(d, k) == GetOr(d, k, None)

\* Python truthiness of a value
Truthy(v) ==
  CASE v.t = "null" -> FALSE
    [] v.t = "str"  -> v.s # ""
    [] v.t = "num"  -> v.n # 0
    [] v.t = "list" -> Len(v.e) > 0
    [] v.t = "dict" -> \E k \in DOMAIN v.f : v.f[k] # Absent
    [] OTHER -> FALSE

\* a or b
Or(a, b) == IF Truthy(a) THEN a ELSE b

\* v == s, for a str s (sys.argv[1] or a literal)
PyEq(v, s) == v.t = "str" /\ v.s = s

-----------------------------------------------------------------------------
(* get_cvm_info, as operators *)

\* lines 13-15 with a bare list not accepted
ItemsOfMappingOnly(d) ==
  LET its == IF IsDict(d) THEN GetOr(d, "items", List(<<>>)) ELSE List(<<>>)
  IN IF ~IsList(its) THEN <<>> ELSE its.e

\* lines 13-15
ItemsOf(d) ==
  LET its == IF IsDict(d) THEN GetOr(d, "items", List(<<>>)) ELSE d
  IN IF ~IsList(its) THEN <<>> ELSE its.e

\* line 25 with the hosted status forgotten
IsSkippedStatusOnly(status, h_status) == PyEq(status, "terminated")

\* line 25
IsSkipped(status, h_status) ==
  PyEq(status, "terminated") \/ PyEq(h_status, "terminated")

\* line 29 with the hosted name forgotten
NameMatchesItemOnly(item, hosted, app_name) ==
  PyEq(Get(item, "name"), app_name)

\* line 29
NameMatches(item, hosted, app_name) ==
  PyEq(Get(item, "name"), app_name) \/ PyEq(Get(hosted, "name"), app_name)

\* One iteration of the for loop, lines 19-31: what it does with item.
LoopBody(item, app_name) ==
  IF ~HasGet(item) THEN "raise"
  ELSE LET status == Get(item, "status")
           hosted == GetOr(item, "hosted", EmptyDict)
       IN IF ~HasGet(hosted) THEN "raise"
          ELSE LET h_status == Get(hosted, "status")
               IN IF IsSkipped(status, h_status) THEN "continue"
                  ELSE IF NameMatches(item, hosted, app_name) THEN "break"
                  ELSE "next"

\* lines 35-40 with the item's id tried before the hosted id
ResultItemIdFirst(tgt, hosted) ==
  Dict([id |-> Or(Or(Get(tgt, "id"), Get(hosted, "id")), Get(tgt, "vm_uuid")),
        app_id |-> Or(Get(hosted, "app_id"), Get(tgt, "app_id")),
        dashboard_url |-> Or(Get(tgt, "dapp_dashboard_url"),
                             Get(hosted, "app_url"))])

\* lines 35-40: the returned dict
Result(tgt, hosted) ==
  Dict([id |-> Or(Or(Get(hosted, "id"), Get(tgt, "id")), Get(tgt, "vm_uuid")),
        app_id |-> Or(Get(hosted, "app_id"), Get(tgt, "app_id")),
        dashboard_url |-> Or(Get(tgt, "dapp_dashboard_url"),
                             Get(hosted, "app_url"))])

\* lines 33-43 after the loop: [exc |-> an exception was raised, val |-> the
\* value returned otherwise]
AfterLoop(tgt) ==
  IF Truthy(tgt)
  THEN LET hosted == GetOr(tgt, "hosted", EmptyDict)
       IN IF ~HasGet(hosted) THEN [exc |-> TRUE, val |-> None]
          ELSE [exc |-> FALSE, val |-> Result(tgt, hosted)]
  ELSE [exc |-> FALSE, val |-> None]

\* lines 17-31: the loop from position i on; [exc, target]
RECURSIVE Scan(_, _, _)
Scan(its, i, app_name) ==
  IF i > Len(its) THEN [exc |-> FALSE, target |-> None]
  ELSE LET o == LoopBody(its[i], app_name)
       IN CASE o = "raise" -> [exc |-> TRUE, target |-> None]
            [] o = "break" -> [exc |-> FALSE, target |-> its[i]]
            [] OTHER -> Scan(its, i + 1, app_name)

\* lines 5-43: the value get_cvm_info returns when stdin holds text
get_cvm_info(text, app_name) ==
  IF text.kind = "empty" THEN None
  ELSE IF text.kind = "malformed" THEN None
  ELSE LET s == Scan(ItemsOf(text.value), 1, app_name)
       IN IF s.exc THEN None
          ELSE LET r == AfterLoop(s.target)
               IN IF r.exc THEN None ELSE r.val

\* json.dumps of a value of the Result
JsonText(v) ==
  CASE v.t = "null" -> "null"
    [] v.t = "str" -> "\"" \o v.s \o "\""
    [] v.t = "num" -> ToString(v.n)
    [] OTHER -> "?"

\* line 53: json.dumps(info)
Dumps(d) ==
  "{\"id\": " \o JsonText(d.f["id"])
    \o ", \"app_id\": " \o JsonText(d.f["app_id"])
    \o ", \"dashboard_url\": " \o JsonText(d.f["dashboard_url"]) \o "}"

\* line 52 testing the id as well
MainHasInfoAndId(i) == Truthy(i) /\ Truthy(Get(i, "id"))

\* line 52: if info
MainHasInfo(i) == Truthy(i)

UsageLine == "Usage: get_cvm_info.py <app_name>"

-----------------------------------------------------------------------------
(* Inputs *)

\* longest list of scan items on stdin
MaxItems == 2

\* the name given on the command line, and another name
AppName == "a"

OtherName == "b"

Item(status, hosted, name, id, vm_uuid, app_id, url) ==
  Dict([status |-> status, hosted |-> hosted, name |-> name, id |-> id,
        vm_uuid |-> vm_uuid, app_id |-> app_id, dapp_dashboard_url |-> url])

Hosted(status, name, id, app_id, app_url) ==
  Dict([status |-> status, name |-> name, id |-> id, app_id |-> app_id,
        app_url |-> app_url])

\* List elements that exercise the scan: an element that is not a mapping,
\* and every combination of status, hosted shape and name, each with an id
\* of its own.
ScanHosted ==
  {[tag |-> "0", v |-> Absent],
   [tag |-> "n", v |-> None],
   [tag |-> "t", v |-> Hosted(Str("terminated"), Str(AppName), Absent, Absent,
                              Absent)],
   [tag |-> "d", v |-> Hosted(Str("deleted"), Str(AppName), Absent, Absent,
                              Absent)],
   [tag |-> "h", v |-> Hosted(Absent, Str(AppName), Absent, Absent, Absent)]}

ScanStatus ==
  {[tag |-> "0", v |-> Absent],
   [tag |-> "t", v |-> Str("terminated")],
   [tag |-> "d", v |-> Str("deleted")]}

ScanElems ==
  {Str("junk")} \cup
  {Item(st.v, h.v, Str(n), Str("id-" \o st.tag \o h.tag \o n), Absent, Absent,
        Absent) :
     st \in ScanStatus, h \in ScanHosted, n \in {AppName, OtherName}}

\* Items that exercise the Result: named AppName, every combination of
\* absent, null, empty and non-empty sources.
FieldHosted ==
  {Absent, None, Str("h")} \cup
  {Hosted(Absent, Absent, id, app_id, app_url) :
     id \in {Absent, None, Str(""), Str("hid")},
     app_id \in {Absent, Str(""), Str("happ")},
     app_url \in {Absent, Str(""), Str("hurl")}}

FieldItems ==
  {Item(Absent, h, Str(AppName), id, vm_uuid, app_id, url) :
     h \in FieldHosted,
     id \in {Absent, None, Str(""), Str("iid")},
     vm_uuid \in {Absent, Num(0), Str(""), Str("uuid")},
     app_id \in {Absent, Str(""), Str("iapp")},
     url \in {Absent, Str(""), Str("durl")}}

\* Payloads whose top-level value yields no items
OtherPayloads ==
  {None, Str("x"), Num(0), Dict([items |-> Absent]), Dict([items |-> None]),
   Dict([items |-> Str("x")]),
   Dict([items |-> Dict([name |-> Str(AppName)])])}

\* The two accepted shapes of a payload holding the list L
Payload(shape, L) ==
  IF shape = "list" THEN List(L) ELSE Dict([items |-> List(L)])

\* The text on stdin: empty, not JSON, or the JSON text of a value
Json(v) == [kind |-> "json", value |-> v]

\* sys.argv: the script name, and the name argument when one is given
Argvs == {<<"get_cvm_info.py">>, <<"get_cvm_info.py", AppName>>}

-----------------------------------------------------------------------------
(* The process *)

Init ==
  /\ argv \in Argvs
  /\ \/ stdin \in {[kind |-> "empty"], [kind |-> "malformed"]}
     \/ \E v \in OtherPayloads : stdin = Json(v)
     \/ \E shape \in {"list", "dict"} :
          \/ \E k \in 0..MaxItems : \E L \in [1..k -> ScanElems] :
               stdin = Json(Payload(shape, L))
          \/ \E it \in FieldItems : stdin = Json(Payload(shape, <<it>>))
  /\ pc = "main"
  /\ data = Unset
  /\ items = <<>>
  /\ idx = 0
  /\ target = Unset
  /\ info = Unset
  /\ raised = "none"
  /\ stdout = <<>>
  /\ stderr = <<>>
  /\ exit_status = -1

\* lines 47-49 with the usage line printed to standard output
MainUsageToStdout ==
  /\ pc = "main"
  /\ Len(argv) < 2
  /\ stdout' = Append(stdout, UsageLine)
  /\ exit_status' = 1
  /\ pc' = "exit"
  /\ UNCHANGED <<argv, stdin, data, items, idx, target, info, raised, stderr>>

\* lines 47-49
MainUsage ==
  /\ pc = "main"
  /\ Len(argv) < 2
  /\ stderr' = Append(stderr, UsageLine)
  /\ exit_status' = 1
  /\ pc' = "exit"
  /\ UNCHANGED <<argv, stdin, data, items, idx, target, info, raised, stdout>>

\* line 51: call get_cvm_info(sys.argv[1])
MainCall ==
  /\ pc = "main"
  /\ ~(Len(argv) < 2)
  /\ pc' = "read"
  /\ UNCHANGED <<argv, stdin, data, items, idx, target, info, raised,
                 stdout, stderr, exit_status>>

\* lines 8-10: empty input returns None
ReadEmpty ==
  /\ pc = "read"
  /\ stdin.kind = "empty"
  /\ info' = None
  /\ pc' = "returned"
  /\ UNCHANGED <<argv, stdin, data, items, idx, target, raised,
                 stdout, stderr, exit_status>>

\* line 12: json.loads raises on text that is not JSON
ParseError ==
  /\ pc = "read"
  /\ stdin.kind = "malformed"
  /\ raised' = "JSONDecodeError"
  /\ pc' = "except"
  /\ UNCHANGED <<argv, stdin, data, items, idx, target, info,
                 stdout, stderr, exit_status>>

\* lines 12-17
Parse ==
  /\ pc = "read"
  /\ stdin.kind = "json"
  /\ data' = stdin.value
  /\ items' = ItemsOf(stdin.value)
  /\ target' = None
  /\ idx' = 1
  /\ pc' = "loop"
  /\ UNCHANGED <<argv, stdin, info, raised, stdout, stderr, exit_status>>

\* lines 20, 22: .get on a value that has none
LoopRaise ==
  /\ pc = "loop"
  /\ idx <= Len(items)
  /\ LoopBody(items[idx], argv[2]) = "raise"
  /\ raised' = "AttributeError"
  /\ pc' = "except"
  /\ UNCHANGED <<argv, stdin, data, items, idx, target, info,
                 stdout, stderr, exit_status>>

\* lines 25-26: continue
LoopSkip ==
  /\ pc = "loop"
  /\ idx <= Len(items)
  /\ LoopBody(items[idx], argv[2]) = "continue"
  /\ idx' = idx + 1
  /\ UNCHANGED <<argv, stdin, pc, data, items, target, info, raised,
                 stdout, stderr, exit_status>>

\* line 29 false: next item
LoopNoMatch ==
  /\ pc = "loop"
  /\ idx <= Len(items)
  /\ LoopBody(items[idx], argv[2]) = "next"
  /\ idx' = idx + 1
  /\ UNCHANGED <<argv, stdin, pc, data, items, target, info, raised,
                 stdout, stderr, exit_status>>

\* lines 29-31 without the break
LoopBreakKeepsScanning ==
  /\ pc = "loop"
  /\ idx <= Len(items)
  /\ LoopBody(items[idx], argv[2]) = "break"
  /\ target' = items[idx]
  /\ idx' = idx + 1
  /\ UNCHANGED <<argv, stdin, pc, data, items, info, raised,
                 stdout, stderr, exit_status>>

\* lines 29-31: target = item; break
LoopBreak ==
  /\ pc = "loop"
  /\ idx <= Len(items)
  /\ LoopBody(items[idx], argv[2]) = "break"
  /\ target' = items[idx]
  /\ pc' = "after"
  /\ UNCHANGED <<argv, stdin, data, items, idx, info, raised,
                 stdout, stderr, exit_status>>

\* line 18: the list is exhausted
LoopEnd ==
  /\ pc = "loop"
  /\ idx > Len(items)
  /\ pc' = "after"
  /\ UNCHANGED <<argv, stdin, data, items, idx, target, info, raised,
                 stdout, stderr, exit_status>>

\* lines 33-40, 43
Return ==
  /\ pc = "after"
  /\ LET r == AfterLoop(target)
     IN IF r.exc
        THEN /\ raised' = "AttributeError"
             /\ pc' = "except"
             /\ info' = info
        ELSE /\ info' = r.val
             /\ pc' = "returned"
             /\ raised' = raised
  /\ UNCHANGED <<argv, stdin, data, items, idx, target,
                 stdout, stderr, exit_status>>

\* lines 41-42 without the handler: the exception leaves get_cvm_info and
\* the interpreter ends the process with a traceback
ExceptPropagates ==
  /\ pc = "except"
  /\ stderr' = Append(stderr, "Traceback (most recent call last):")
  /\ exit_status' = 1
  /\ pc' = "exit"
  /\ UNCHANGED <<argv, stdin, data, items, idx, target, info, raised, stdout>>

\* lines 41-42: except Exception: return None
Except ==
  /\ pc = "except"
  /\ info' = None
  /\ pc' = "returned"
  /\ UNCHANGED <<argv, stdin, data, items, idx, target, raised,
                 stdout, stderr, exit_status>>

\* lines 52-53, and the end of the script
MainPrint ==
  /\ pc = "returned"
  /\ MainHasInfo(info)
  /\ stdout' = Append(stdout, Dumps(info))
  /\ exit_status' = 0
  /\ pc' = "exit"
  /\ UNCHANGED <<argv, stdin, data, items, idx, target, info, raised, stderr>>

\* lines 54-55
MainExit ==
  /\ pc = "returned"
  /\ ~MainHasInfo(info)
  /\ exit_status' = 1
  /\ pc' = "exit"
  /\ UNCHANGED <<argv, stdin, data, items, idx, target, info, raised,
                 stdout, stderr>>

Next ==
  \/ MainUsage
  \/ MainCall
  \/ ReadEmpty
  \/ ParseError
  \/ Parse
  \/ LoopRaise
  \/ LoopSkip
  \/ LoopNoMatch
  \/ LoopBreak
  \/ LoopEnd
  \/ Return
  \/ Except
  \/ MainPrint
  \/ MainExit

Spec == Init /\ [][Next]_vars

-----------------------------------------------------------------------------
(* Vocabulary of the properties, from the specification's description of   *)
(* the scan: hosted is the item's hosted field if it is a mapping, else an *)
(* empty mapping.                                                          *)

HostedOf(e) ==
  LET h == GetOr(e, "hosted", EmptyDict) IN IF IsDict(h) THEN h ELSE EmptyDict

IsTerminated(e) ==
  \/ Get(e, "status") = Str("terminated")
  \/ Get(HostedOf(e), "status") = Str("terminated")

IsDeleted(e) ==
  \/ Get(e, "status") = Str("deleted")
  \/ Get(HostedOf(e), "status") = Str("deleted")

IsNamed(e, n) ==
  \/ Get(e, "name") = Str(n)
  \/ Get(HostedOf(e), "name") = Str(n)

\* positions of the non-terminated items named n
Qualifying(L, n) ==
  {i \in 1..Len(L) : IsDict(L[i]) /\ ~IsTerminated(L[i]) /\ IsNamed(L[i], n)}

FirstQualifying(L, n) ==
  CHOOSE i \in Qualifying(L, n) : \A j \in Qualifying(L, n) : i <= j

\* an element the scan can read: a mapping whose hosted, when present, is a
\* mapping
WellFormed(e) == IsDict(e) /\ IsDict(GetOr(e, "hosted", EmptyDict))

HostedNotMapping(e) ==
  IsDict(e) /\ ~IsDict(GetOr(e, "hosted", EmptyDict))

FirstNonNull(vs) ==
  IF \E i \in 1..Len(vs) : vs[i] # None
  THEN vs[CHOOSE i \in 1..Len(vs) :
            vs[i] # None /\ \A j \in 1..(i - 1) : vs[j] = None]
  ELSE None

FirstTruthyElseLast(vs) ==
  IF \E i \in 1..Len(vs) : Truthy(vs[i])
  THEN vs[CHOOSE i \in 1..Len(vs) :
            Truthy(vs[i]) /\ \A j \in 1..(i - 1) : ~Truthy(vs[j])]
  ELSE vs[Len(vs)]

IdSources(e) == <<Get(HostedOf(e), "id"), Get(e, "id"), Get(e, "vm_uuid")>>

AppIdSources(e) == <<Get(HostedOf(e), "app_id"), Get(e, "app_id")>>

UrlSources(e) == <<Get(e, "dapp_dashboard_url"), Get(HostedOf(e), "app_url")>>

\* the Result of item e, each field the first truthy source
Summary(e) ==
  Dict([id |-> FirstTruthyElseLast(IdSources(e)),
        app_id |-> FirstTruthyElseLast(AppIdSources(e)),
        dashboard_url |-> FirstTruthyElseLast(UrlSources(e))])

\* a name argument was supplied
HasName == Len(argv) >= 2

\* get_cvm_info has returned, having parsed the payload
Looked == pc \in {"returned", "exit"} /\ HasName /\ stdin.kind = "json"

\* the scan chose an item
Matched == IsDict(target)

-----------------------------------------------------------------------------
(* Properties *)

\* C1: the item the scan selects never has status "terminated" nor
\* hosted.status "terminated", even when its name equals the target; and a
\* payload whose name-matching items are all terminated ends with exit
\* status 1 and nothing on standard output.
C1_TerminatedNeverMatches ==
  /\ Matched => ~IsTerminated(target)
  /\ (pc = "exit" /\ HasName /\ stdin.kind = "json"
        /\ Qualifying(items, argv[2]) = {})
       => (info = None /\ exit_status = 1 /\ stdout = <<>>)

\* A terminated item named as the target was scanned, nothing went wrong,
\* and the process ended with status 1.
C1_Witness ==
  /\ pc = "exit"
  /\ HasName
  /\ raised = "none"
  /\ exit_status = 1
  /\ \E i \in 1..Len(items) :
       IsDict(items[i]) /\ IsNamed(items[i], argv[2]) /\ IsTerminated(items[i])

\* C2: when the lookup returns a Result, the item chosen is the lowest-index
\* non-terminated item whose name or hosted.name equals the target, and the
\* Result is built from that item alone; and when such an item exists and
\* every element up to it can be read, a Result is returned.
C2_FirstMatchWins ==
  Looked =>
    LET n == argv[2]
        Q == Qualifying(items, n)
    IN /\ info # None =>
            /\ Q # {}
            /\ idx = FirstQualifying(items, n)
            /\ target = items[FirstQualifying(items, n)]
            /\ info = Summary(items[FirstQualifying(items, n)])
       /\ (Q # {} /\ \A j \in 1..FirstQualifying(items, n) : WellFormed(items[j]))
            => info # None

\* Two items qualify, with different summaries, and a Result was returned.
C2_Witness ==
  /\ pc = "exit"
  /\ Looked
  /\ info # None
  /\ \E i, j \in Qualifying(items, argv[2]) :
       i < j /\ Summary(items[i]) # Summary(items[j])

\* C3 as stated: each Result field is the first non-null source in its
\* order (an empty string wins over any later source), else null.
C3_FirstNonNullWins ==
  (Looked /\ Matched /\ info # None) =>
    /\ info.f["id"] = FirstNonNull(IdSources(target))
    /\ info.f["app_id"] = FirstNonNull(AppIdSources(target))
    /\ info.f["dashboard_url"] = FirstNonNull(UrlSources(target))

\* C3 amended: each Result field is the first truthy source in its order
\* (not null, not an empty string, not zero); when no source is truthy it
\* is the last source of the order, null when that one is absent.
C3_FirstTruthyWins ==
  (Looked /\ Matched /\ info # None) =>
    /\ info.f["id"] = FirstTruthyElseLast(IdSources(target))
    /\ info.f["app_id"] = FirstTruthyElseLast(AppIdSources(target))
    /\ info.f["dashboard_url"] = FirstTruthyElseLast(UrlSources(target))

\* A Result was built from an item whose hosted id is an empty string and
\* whose own id is not empty.
C3_Witness ==
  /\ pc = "exit"
  /\ Matched
  /\ info # None
  /\ Get(HostedOf(target), "id") = Str("")
  /\ Truthy(Get(target, "id"))
  /\ Truthy(Get(target, "vm_uuid"))

\* C4: get_cvm_info returns None, and no exception leaves it, when the
\* input is empty, when it is not JSON, when no non-terminated item matches
\* the name, and when an error is raised while the items are determined or
\* scanned.
C4_AbsenceNeverException ==
  (pc \in {"returned", "exit"} /\ HasName
     /\ \/ stdin.kind = "empty"
        \/ stdin.kind = "malformed"
        \/ raised # "none"
        \/ stdin.kind = "json" /\ Qualifying(ItemsOf(stdin.value), argv[2]) = {})
    => (info = None /\ stderr = <<>>)

\* A list element that is not a mapping raised an error in the scan, and
\* the process ended.
C4_Witness ==
  /\ pc = "exit"
  /\ raised = "AttributeError"
  /\ \E i \in 1..Len(items) : ~IsDict(items[i])

\* C5: with a name argument the process ends in one of two ways: a match
\* was found, the Result is the one line on standard output and the exit
\* status is 0; or no match was found, nothing is on standard output and
\* the exit status is 1.
C5_ExitZeroIffMatch ==
  (pc = "exit" /\ HasName) =>
    \/ /\ Matched
       /\ info = Summary(target)
       /\ exit_status = 0
       /\ stdout = <<Dumps(info)>>
    \/ /\ ~Matched
       /\ info = None
       /\ exit_status = 1
       /\ stdout = <<>>

\* A match whose three Result fields are all null was printed, with exit
\* status 0.
C5_Witness ==
  /\ pc = "exit"
  /\ Matched
  /\ exit_status = 0
  /\ stdout = <<"{\"id\": null, \"app_id\": null, \"dashboard_url\": null}">>

\* C6: the lookup on a bare list L and the lookup on the object
\* {"items": L} give the same outcome for the same name.
C6_ShapesEquivalent ==
  Looked =>
    /\ IsList(data) =>
         info = get_cvm_info(Json(Dict([items |-> data])), argv[2])
    /\ (IsDict(data) /\ IsList(GetOr(data, "items", None))) =>
         info = get_cvm_info(Json(GetOr(data, "items", None)), argv[2])

\* A bare list payload gave a Result.
C6_Witness ==
  /\ pc = "exit"
  /\ Looked
  /\ IsList(data)
  /\ info # None

\* C7: an item whose hosted field is present but not a mapping is read as
\* having an empty hosted: when it is the first non-terminated item named
\* as the target and the elements before it can be read, it is the match
\* and the Result is built from its own fields.
C7_HostedNotMappingIsEmpty ==
  (pc = "exit" /\ Looked /\ Qualifying(items, argv[2]) # {}) =>
    LET i == FirstQualifying(items, argv[2])
    IN (HostedNotMapping(items[i])
          /\ \A j \in 1..(i - 1) : WellFormed(items[j]))
         => /\ info = Summary(items[i])
            /\ exit_status = 0

\* C8: with no name argument the process prints the usage line to the
\* error stream, prints nothing to standard output and exits with status
\* 1, whatever is on standard input, which is not read.
C8_UsageWithoutName ==
  (pc = "exit" /\ ~HasName) =>
    /\ stderr = <<UsageLine>>
    /\ stdout = <<>>
    /\ exit_status = 1
    /\ data = Unset
    /\ info = Unset

\* The process ended without a name argument while standard input held a
\* payload in which the name "a" would have been found.
C8_Witness ==
  /\ pc = "exit"
  /\ ~HasName
  /\ get_cvm_info(stdin, AppName) # None

\* C9: the item the scan selects never has status "deleted" nor
\* hosted.status "deleted".
C9_DeletedNeverMatches ==
  Matched => ~IsDeleted(target)

\* C10: the outcome is decided by the elements up to and including the
\* first non-terminated item named as the target: the lookup on the whole
\* sequence returns what the lookup on that prefix returns, whatever
\* follows it.
C10_SuffixIrrelevant ==
  (Looked /\ Qualifying(items, argv[2]) # {}) =>
    info = get_cvm_info(
             Json(List(SubSeq(items, 1, FirstQualifying(items, argv[2])))),
             argv[2])

\* A Result was returned from an item that is followed by an element that
\* is not a mapping, or by another item that qualifies.
C10_Witness ==
  /\ pc = "exit"
  /\ Looked
  /\ info # None
  /\ \E j \in (FirstQualifying(items, argv[2]) + 1)..Len(items) :
       ~IsDict(items[j]) \/ j \in Qualifying(items, argv[2])

TypeOK ==
  /\ pc \in {"main", "read", "loop", "after", "except", "returned", "exit"}
  /\ exit_status \in {-1, 0, 1}

====
